---- MODULE Spec2Model ----
(***************************************************************************)
(* A model of convert_diet_files.py: the grid scanner parse_diet_file, its *)
(* helpers _strip_spaces, _is_blank and _is_number, and the per-file loop  *)
(* of main with the all-macros-empty record filter.                        *)
(*                                                                         *)
(* Python values are tagged records: None, a float that is NaN, a finite   *)
(* float (held in tenths, 15.0 is 150) and a str (a sequence of            *)
(* characters).  A character is a one-character string, except that the    *)
(* non-breaking space U+00A0 is written "NBSP" and a Hangul syllable is    *)
(* written by its romanisation ("A","CHIM" is U+C544 U+CE68).              *)
(***************************************************************************)
EXTENDS Integers, Sequences, FiniteSets

VARIABLES pc, df, date_str, current_meal, i, records, emitted_at, written,
          df_out

vars == <<pc, df, date_str, current_meal, i, records, emitted_at, written,
          df_out>>

(* ---------------------------- bounds ----------------------------------- *)

\* The largest number of rows of a sheet of full width.
MaxRows == 5

\* The largest number of rows of a sheet narrower than five columns.
MaxNarrowRows == 2

(* ---------------------------- values ----------------------------------- *)

None == [t |-> "none"]
NaN == [t |-> "nan"]
Num(v) == [t |-> "num", v |-> v]
Str(s) == [t |-> "str", s |-> s]

SP == " "
NBSP == "NBSP"

\* The characters str.strip() and float() treat as white space, among the
\* characters of the model.
Whitespace == {SP, NBSP}

DigitChars == <<"0", "1", "2", "3", "4", "5", "6", "7", "8", "9">>

IsDigit(c) == \E d \in 1..10 : DigitChars[d] = c

DigitValue(c) == (CHOOSE d \in 1..10 : DigitChars[d] = c) - 1

(* ---------------------------- text helpers ----------------------------- *)

\* s.replace("\xa0", "")
RECURSIVE RemoveNbsp(_)
RemoveNbsp(s) ==
    IF s = <<>> THEN <<>>
    ELSE IF Head(s) = NBSP THEN RemoveNbsp(Tail(s))
    ELSE <<Head(s)>> \o RemoveNbsp(Tail(s))

RECURSIVE LStrip(_)
LStrip(s) ==
    IF s # <<>> /\ Head(s) \in Whitespace THEN LStrip(Tail(s)) ELSE s

RECURSIVE RStrip(_)
RStrip(s) ==
    IF s # <<>> /\ s[Len(s)] \in Whitespace
    THEN RStrip(SubSeq(s, 1, Len(s) - 1))
    ELSE s

\* str.strip()
Strip(s) == RStrip(LStrip(s))

\* _strip_spaces(s): the non-breaking spaces go, then the ends are trimmed.
StripSpaces(s) == Strip(RemoveNbsp(s))

\* kw in cell
Contains(cell, kw) ==
    \E k \in 0..(Len(cell) - Len(kw)) : SubSeq(cell, k + 1, k + Len(kw)) = kw

RECURSIVE NatToStr(_)
NatToStr(n) ==
    IF n < 10 THEN <<DigitChars[n + 1]>>
    ELSE NatToStr(n \div 10) \o <<DigitChars[(n % 10) + 1]>>

\* str(x) of a float held in tenths: 15.0 -> "15.0", 2.5 -> "2.5".
FloatToStr(v) ==
    IF v < 0 THEN <<"-">> \o NatToStr((0 - v) \div 10) \o <<".">>
                  \o <<DigitChars[((0 - v) % 10) + 1]>>
    ELSE NatToStr(v \div 10) \o <<".">> \o <<DigitChars[(v % 10) + 1]>>

\* str(v)
ToStr(v) ==
    CASE v.t = "str" -> v.s
      [] v.t = "nan" -> <<"n", "a", "n">>
      [] v.t = "num" -> FloatToStr(v.v)
      [] OTHER -> <<"N", "o", "n", "e">>

(* ---------------------------- float(v) --------------------------------- *)

AllDigits(s) == \A k \in 1..Len(s) : IsDigit(s[k])

RECURSIVE DigitsValue(_)
DigitsValue(s) ==
    IF s = <<>> THEN 0
    ELSE 10 * DigitsValue(SubSeq(s, 1, Len(s) - 1)) + DigitValue(s[Len(s)])

DotAt(s) == {k \in 1..Len(s) : s[k] = "."}

\* The unsigned body of a float literal: "nan" in any case, digits, or
\* digits with one point and digits on at least one side of it.  The value
\* is kept to the first fractional digit.
ParseUnsigned(s) ==
    IF Len(s) = 3 /\ s[1] \in {"n", "N"} /\ s[2] \in {"a", "A"}
       /\ s[3] \in {"n", "N"}
    THEN [ok |-> TRUE, val |-> NaN]
    ELSE IF s # <<>> /\ AllDigits(s)
    THEN [ok |-> TRUE, val |-> Num(10 * DigitsValue(s))]
    ELSE IF Cardinality(DotAt(s)) = 1
    THEN LET d == CHOOSE k \in DotAt(s) : TRUE
             ip == SubSeq(s, 1, d - 1)
             fp == SubSeq(s, d + 1, Len(s))
         IN  IF AllDigits(ip) /\ AllDigits(fp) /\ Len(ip) + Len(fp) > 0
             THEN [ok |-> TRUE,
                   val |-> Num(10 * DigitsValue(ip)
                               + (IF fp = <<>> THEN 0 ELSE DigitValue(fp[1])))]
             ELSE [ok |-> FALSE, val |-> None]
    ELSE [ok |-> FALSE, val |-> None]

\* float(s) of a str: white space at the ends is ignored, one sign allowed.
ParseFloat(s) ==
    LET t == Strip(s)
    IN  IF t # <<>> /\ t[1] \in {"+", "-"}
        THEN LET r == ParseUnsigned(Tail(t))
             IN  IF r.ok /\ r.val.t = "num" /\ t[1] = "-"
                 THEN [ok |-> TRUE, val |-> Num(0 - r.val.v)]
                 ELSE r
        ELSE ParseUnsigned(t)

\* float(v): ok is FALSE where Python raises.
ToFloat(v) ==
    CASE v.t = "nan" -> [ok |-> TRUE, val |-> NaN]
      [] v.t = "num" -> [ok |-> TRUE, val |-> v]
      [] v.t = "str" -> ParseFloat(v.s)
      [] OTHER -> [ok |-> FALSE, val |-> None]

(* ---------------------------- cell tests ------------------------------- *)

\* _is_blank(v)
IsBlank(v) ==
    IF v.t = "none" THEN TRUE
    ELSE IF v.t = "nan" THEN TRUE
    ELSE IF v.t = "str" /\ StripSpaces(v.s) = <<>> THEN TRUE
    ELSE FALSE

\* _is_number(v)
IsNumber(v) == ToFloat(v).ok

\* pandas' isna on a cell of the output frame
IsNa(v) == v.t \in {"none", "nan"}

(* ---------------------------- sections --------------------------------- *)

\* The keywords of lines 50-56 and the labels of lines 51-57.
KwBreakfast == <<"A", "CHIM">>
KwLunch == <<"JEOM", "SIM">>
KwDinner == <<"JEO", "NYEOK">>
KwSnackSlash == <<"GAN", "SIK", "/", "GI", "TA">>
KwSnackPlain == <<"GAN", "SIK", "GI", "TA">>

Breakfast == <<"A", "CHIM", SP, "SIK", "SA">>
Lunch == <<"JEOM", "SIM", SP, "SIK", "SA">>
Dinner == <<"JEO", "NYEOK", SP, "SIK", "SA">>
SnackOther == <<"GAN", "SIK", "/", "GI", "TA">>

\* A section update that takes only the first keyword row of a sheet.
StickyMeal(first, cur) ==
    IF first.t = "str" /\ cur = None
    THEN LET cell == StripSpaces(first.s)
         IN  IF Contains(cell, KwBreakfast) THEN Str(Breakfast)
             ELSE IF Contains(cell, KwLunch) THEN Str(Lunch)
             ELSE IF Contains(cell, KwDinner) THEN Str(Dinner)
             ELSE IF Contains(cell, KwSnackSlash) \/ Contains(cell, KwSnackPlain)
             THEN Str(SnackOther)
             ELSE cur
    ELSE cur

\* The section update at the head of the loop body (lines 48-57): the value
\* of current_meal after it, given the column-0 cell and the value before.
UpdateMeal(first, cur) ==
    IF first.t = "str"
    THEN LET cell == StripSpaces(first.s)
         IN  IF Contains(cell, KwBreakfast) THEN Str(Breakfast)
             ELSE IF Contains(cell, KwLunch) THEN Str(Lunch)
             ELSE IF Contains(cell, KwDinner) THEN Str(Dinner)
             ELSE IF Contains(cell, KwSnackSlash) \/ Contains(cell, KwSnackPlain)
             THEN Str(SnackOther)
             ELSE cur
    ELSE cur

(* ---------------------------- the grid --------------------------------- *)

\* Column 0 and the four macro columns 1..4 (range(1, 5)).
NumCols == 5

NRows(g) == Len(g)

NCols(g) == IF Len(g) = 0 THEN 0 ELSE Len(g[1])

\* df.iloc[r, c], r and c counted from 0
Cell(g, r, c) == g[r + 1][c + 1]

\* The rows a sheet is made of: an empty row, a macro row holding a number,
\* an empty cell, a numeric text and a non-numeric text, a row of
\* non-numeric texts behind a white-space-only label, two section headers,
\* a label with an inner space, and a numeric label.
RowBlank == <<NaN, NaN, NaN, NaN, NaN>>
RowMacro == <<NaN, Num(150), NaN, Str(<<"2", ".", "5">>), Str(<<"x">>)>>
RowText == <<Str(<<SP, NBSP>>), Str(<<"x">>), Str(<<"-">>), Str(<<"x">>),
             Str(<<"x">>)>>
RowBreakfast == <<Str(Breakfast), NaN, NaN, NaN, NaN>>
RowSnack == <<Str(<<"GAN", "SIK", NBSP, "GI", "TA">>), NaN, NaN, NaN, NaN>>
RowLabel == <<Str(<<"a", NBSP, SP, "b", SP>>), NaN, NaN, NaN, NaN>>
RowNumber == <<Num(50), NaN, NaN, NaN, NaN>>

RowTypes == {RowBlank, RowMacro, RowText, RowBreakfast, RowSnack, RowLabel,
             RowNumber}

\* A sheet is rectangular: every row has the sheet's width.  A sheet
\* without rows has no columns.
NarrowWidths == {1, 3}

Grids ==
    UNION ({[1..n -> RowTypes] : n \in 0..MaxRows}
           \cup {[1..n -> {SubSeq(row, 1, w) : row \in RowTypes}] :
                   n \in 1..MaxNarrowRows, w \in NarrowWidths})

(* ---------------------------- parse_diet_file -------------------------- *)

\* while r < n_rows and _is_blank(df.iloc[r, 0]): r += 1
RECURSIVE SkipBlank(_, _)
SkipBlank(g, r) ==
    IF r < NRows(g) /\ IsBlank(Cell(g, r, 0)) THEN SkipBlank(g, r + 1) ELSE r

RECURSIVE SkipBlankBefore(_, _, _)
SkipBlankBefore(g, r, stop) ==
    IF r < stop /\ IsBlank(Cell(g, r, 0))
    THEN SkipBlankBefore(g, r + 1, stop)
    ELSE r

\* An off-by-one name lookahead that stops on the last row.
NameRowStopsOnLast(g, row) ==
    IF row + 1 >= NRows(g) THEN row + 1
    ELSE SkipBlankBefore(g, row + 1, NRows(g) - 1)

\* name_row after the loop of lines 74-76
NameRow(g, row) == SkipBlank(g, row + 1)

\* A quantity lookahead that does not skip blank rows.
QtyRowNoSkip(g, name_row) == name_row + 1

\* qty_row after the loop of lines 83-85
QtyRow(g, name_row) == SkipBlank(g, name_row + 1)

\* macro_vals of line 64
MacroVals(g, row) == [j \in 1..4 |-> Cell(g, row, j)]

\* any(_is_number(v) for v in macro_vals)
AnyNumber(vals) == \E j \in 1..4 : IsNumber(vals[j])

\* A check of current_meal that never skips.
MealUndefinedNever(meal) == FALSE

\* current_meal is None
MealUndefined(meal) == meal = None

\* float(v) if _is_number(v) else None
MacroValue(v) == IF IsNumber(v) THEN ToFloat(v).val ELSE None

\* The dict of lines 96-105.
MakeRecord(g, row, date, meal) ==
    LET name_row == NameRow(g, row)
        qty_row == QtyRow(g, name_row)
        vals == MacroVals(g, row)
    IN  [date |-> date,
         name |-> StripSpaces(ToStr(Cell(g, name_row, 0))),
         qty |-> IF qty_row < NRows(g) /\ ~IsBlank(Cell(g, qty_row, 0))
                 THEN StripSpaces(ToStr(Cell(g, qty_row, 0)))
                 ELSE <<>>,
         section |-> meal,
         fat |-> MacroValue(vals[1]),
         carb |-> MacroValue(vals[2]),
         protein |-> MacroValue(vals[3]),
         cal |-> MacroValue(vals[4])]

\* What one pass of the loop body does with row `row`: "continue" (nothing is
\* appended), "append", or "raise" (df.iloc[row, j] past the sheet's width).
RowOutcome(g, row, meal) ==
    IF ~IsBlank(Cell(g, row, 0)) THEN "continue"
    ELSE IF NCols(g) < NumCols THEN "raise"
    ELSE IF ~AnyNumber(MacroVals(g, row)) THEN "continue"
    ELSE IF MealUndefined(meal) THEN "continue"
    ELSE IF NameRow(g, row) >= NRows(g) THEN "continue"
    ELSE "append"

(* ---------------------------- main ------------------------------------- *)

MacroFields == {"fat", "carb", "protein", "cal"}

\* A mask that marks a record with any empty macro field.
MaskAnyEmpty(r) == \E f \in MacroFields : IsNa(r[f])

\* mask_all_empty of line 132, for one record
MaskAllEmpty(r) == \A f \in MacroFields : IsNa(r[f])

Kept(r) == ~MaskAllEmpty(r)

\* df_out[~mask_all_empty].reset_index(drop=True).  The rows keep the
\* scanner's values: the frame shows None and NaN alike as missing (IsNa).
FilterRecords(recs) == SelectSeq(recs, Kept)

(* ---------------------------- the program ------------------------------ *)

Init ==
    /\ pc = "start"
    /\ df = <<>>
    /\ date_str = <<>>
    /\ current_meal = None
    /\ i = 0
    /\ records = <<>>
    /\ emitted_at = <<>>
    /\ written = FALSE
    /\ df_out = <<>>

\* main, lines 113-117: the directory holds no *.xlsx file.
NoFiles ==
    /\ pc = "start"
    /\ pc' = "done"
    /\ UNCHANGED <<df, date_str, current_meal, i, records, emitted_at, written,
                   df_out>>

\* The next file of the loop of line 119 is read (line 34) and the scan is
\* set up (lines 37-42).  df.iloc[0, 0] raises on a sheet without a cell.
ReadFile ==
    /\ pc \in {"start", "loop"}
    /\ \E g \in Grids :
         /\ df' = g
         /\ IF NRows(g) = 0 \/ NCols(g) = 0
            THEN /\ pc' = "error"
                 /\ date_str' = <<>>
            ELSE /\ pc' = "scan"
                 /\ date_str' = IF Cell(g, 0, 0) # None
                                THEN StripSpaces(ToStr(Cell(g, 0, 0)))
                                ELSE <<>>
    /\ current_meal' = None
    /\ i' = 0
    /\ records' = <<>>
    /\ emitted_at' = <<>>
    /\ written' = FALSE
    /\ df_out' = <<>>

\* One pass of the loop body of lines 44-106.  emitted_at records, for each
\* appended record, the row index i it was appended at.
ScanRow ==
    /\ pc = "scan"
    /\ i < NRows(df)
    /\ LET meal == UpdateMeal(Cell(df, i, 0), current_meal)
           outcome == RowOutcome(df, i, meal)
       IN  /\ current_meal' = meal
           /\ IF outcome = "raise"
              THEN /\ pc' = "error"
                   /\ UNCHANGED <<i, records, emitted_at>>
              ELSE /\ pc' = "scan"
                   /\ i' = i + 1
                   /\ IF outcome = "append"
                      THEN /\ records' = Append(records,
                                            MakeRecord(df, i, date_str, meal))
                           /\ emitted_at' = Append(emitted_at, i)
                      ELSE UNCHANGED <<records, emitted_at>>
    /\ UNCHANGED <<df, date_str, written, df_out>>

\* The scan returns no record: main reports and skips the file (121-123).
SkipFile ==
    /\ pc = "scan"
    /\ i = NRows(df)
    /\ records = <<>>
    /\ pc' = "filed"
    /\ UNCHANGED <<df, date_str, current_meal, i, records, emitted_at, written,
                   df_out>>

\* The scan returns records: main filters them and writes the file (125-138).
WriteFile ==
    /\ pc = "scan"
    /\ i = NRows(df)
    /\ records # <<>>
    /\ df_out' = FilterRecords(records)
    /\ written' = TRUE
    /\ pc' = "filed"
    /\ UNCHANGED <<df, date_str, current_meal, i, records, emitted_at>>

\* The loop of line 119 goes on to its next pass.
NextIter ==
    /\ pc = "filed"
    /\ pc' = "loop"
    /\ df' = <<>>
    /\ date_str' = <<>>
    /\ current_meal' = None
    /\ i' = 0
    /\ records' = <<>>
    /\ emitted_at' = <<>>
    /\ written' = FALSE
    /\ df_out' = <<>>

\* The loop of line 119 is over: main returns.
MainReturn ==
    /\ pc = "loop"
    /\ pc' = "done"
    /\ UNCHANGED <<df, date_str, current_meal, i, records, emitted_at, written,
                   df_out>>

Next ==
    \/ NoFiles
    \/ ReadFile
    \/ ScanRow
    \/ SkipFile
    \/ WriteFile
    \/ NextIter
    \/ MainReturn

Spec == Init /\ [][Next]_vars

(* ---------------------------- properties ------------------------------- *)

\* The grid read declaratively, for the statements below.

Keywords == {KwBreakfast, KwLunch, KwDinner, KwSnackSlash, KwSnackPlain}

KeywordsOf(label) ==
    CASE label = Breakfast -> {KwBreakfast}
      [] label = Lunch -> {KwLunch}
      [] label = Dinner -> {KwDinner}
      [] label = SnackOther -> {KwSnackSlash, KwSnackPlain}
      [] OTHER -> {}

\* The cell is a text that, normalised, contains one of the keywords kws.
HasKeywordOf(v, kws) ==
    v.t = "str" /\ \E kw \in kws : Contains(StripSpaces(v.s), kw)

KeywordRowsBefore(g, row) ==
    {j \in 0..(row - 1) : HasKeywordOf(Cell(g, j, 0), Keywords)}

Max(S) == CHOOSE x \in S : \A y \in S : y <= x

Min(S) == CHOOSE x \in S : \A y \in S : x <= y

NonBlankAfter(g, r) ==
    {j \in (r + 1)..(NRows(g) - 1) : ~IsBlank(Cell(g, j, 0))}

\* The first row after r with a non-blank column 0, NRows(g) if none.
FirstNonBlankAfter(g, r) ==
    LET after == NonBlankAfter(g, r)
    IN  IF after = {} THEN NRows(g) ELSE Min(after)

\* The cell is blank (None, NaN) or a text that float() rejects.
BlankOrNonNumericText(v) ==
    \/ v.t \in {"none", "nan"}
    \/ v.t = "str" /\ ~ParseFloat(v.s).ok

\* Row r has the five columns, a blank column 0 and a macro cell that
\* passes _is_number.
IsMacroRow(g, r) ==
    /\ NCols(g) >= NumCols
    /\ IsBlank(Cell(g, r, 0))
    /\ \E j \in 1..4 : IsNumber(Cell(g, r, j))

\* The rows the scan has been through.
Scanned == IF pc \in {"scan", "filed"} THEN 0..(i - 1) ELSE {}

EmittedRows == {emitted_at[k] : k \in 1..Len(emitted_at)}

HasMacro(r) == \E f \in MacroFields : r[f].t = "num"

(* C1: a row whose column 0 is blank and whose cells 1..4 are each blank or *)
(* non-numeric text has no record emitted for it.                           *)
C1_NoRecordWithoutNumber ==
    \A k \in 1..Len(emitted_at) :
        \E j \in 1..4 : ~BlankOrNonNumericText(Cell(df, emitted_at[k], j))

(* C2: once main is through with a file, an output file was written if and  *)
(* only if some record survives the filter.                                 *)
C2_WrittenOnlyIfSurvivors ==
    pc = "filed" =>
        (written <=> \E k \in 1..Len(records) : HasMacro(records[k]))

(* C3: the written rows are the records with at least one macro field       *)
(* present, each exactly once and in the scanner's order.                   *)
C3_FilterKeepsPresentInOrder ==
    written =>
        LET keep == {k \in 1..Len(records) : HasMacro(records[k])}
        IN  /\ Len(df_out) = Cardinality(keep)
            /\ \A k \in keep :
                 df_out[Cardinality({m \in keep : m <= k})] = records[k]

C3_Witness ==
    /\ written
    /\ Len(df_out) >= 2
    /\ Len(df_out) < Len(records)
    /\ ~HasMacro(records[1])

(* C4: every record carries the section of the last row before its macro    *)
(* row whose normalised column-0 text contains a section keyword.           *)
C4_SectionOfLastKeywordRow ==
    \A k \in 1..Len(records) :
        LET before == KeywordRowsBefore(df, emitted_at[k])
        IN  /\ before # {}
            /\ records[k].section.t = "str"
            /\ HasKeywordOf(Cell(df, Max(before), 0),
                            KeywordsOf(records[k].section.s))

\* A record after a snack header, a breakfast header and a snack header.
C4_Witness ==
    \E k \in 1..Len(records) :
        /\ records[k].section = Str(SnackOther)
        /\ \E a, b \in KeywordRowsBefore(df, emitted_at[k]) :
             /\ a < b
             /\ b < Max(KeywordRowsBefore(df, emitted_at[k]))
             /\ HasKeywordOf(Cell(df, a, 0), {KwSnackPlain})
             /\ HasKeywordOf(Cell(df, b, 0), {KwBreakfast})

(* C5: no record comes from a row before the first section keyword row, and *)
(* no record has an undefined section.                                      *)
C5_NoRecordBeforeFirstSection ==
    \A k \in 1..Len(records) :
        /\ records[k].section # None
        /\ KeywordRowsBefore(df, emitted_at[k]) # {}

\* A macro row before any keyword row, with a name row and a quantity row
\* after it, has been scanned.
C5_Witness ==
    \E r \in Scanned :
        /\ IsMacroRow(df, r)
        /\ KeywordRowsBefore(df, r) = {}
        /\ FirstNonBlankAfter(df, FirstNonBlankAfter(df, r)) < NRows(df)
        /\ r \notin EmittedRows
        /\ records # <<>>

(* C6: a record's name is the normalised text of the first non-blank        *)
(* column-0 cell after its macro row, its quantity that of the next         *)
(* non-blank one or the empty string if there is none; and when the scan is *)
(* over, every macro row under a section with a name row has a record,      *)
(* quantity or not.                                                         *)
C6_NameAndQuantityLookahead ==
    /\ \A k \in 1..Len(records) :
         LET j == FirstNonBlankAfter(df, emitted_at[k])
             q == FirstNonBlankAfter(df, j)
         IN  /\ j < NRows(df)
             /\ records[k].name = StripSpaces(ToStr(Cell(df, j, 0)))
             /\ records[k].qty = IF q < NRows(df)
                                 THEN StripSpaces(ToStr(Cell(df, q, 0)))
                                 ELSE <<>>
    /\ pc = "filed" =>
         \A r \in 0..(NRows(df) - 1) :
             (/\ IsMacroRow(df, r)
              /\ FirstNonBlankAfter(df, r) < NRows(df)
              /\ KeywordRowsBefore(df, r) # {})
                => r \in EmittedRows

\* Two records: one whose quantity row lies behind a skipped blank row, one
\* without a quantity row.
C6_Witness ==
    \E k, m \in 1..Len(records) :
        LET j == FirstNonBlankAfter(df, emitted_at[k])
            q == FirstNonBlankAfter(df, j)
        IN  /\ q > j + 1
            /\ q < NRows(df)
            /\ records[k].qty # <<>>
            /\ records[m].qty = <<>>

(* C7: a macro row with no non-blank column-0 cell after it adds no record, *)
(* and the scan goes on with the next row.                                  *)
C7_ExhaustedNameLookahead ==
    [][(/\ pc = "scan"
        /\ i < NRows(df)
        /\ IsMacroRow(df, i)
        /\ NonBlankAfter(df, i) = {})
         => (records' = records /\ pc' = "scan" /\ i' = i + 1)]_vars

\* Such a row, not the last one, has just been scanned under a section.
C7_Witness ==
    /\ pc = "scan"
    /\ i >= 1
    /\ i < NRows(df)
    /\ IsMacroRow(df, i - 1)
    /\ Cell(df, i - 1, 1).t = "num"
    /\ NonBlankAfter(df, i - 1) = {}
    /\ current_meal # None

(* C8: the scan has no error outcome, whatever the grid.                    *)
C8_NoErrorOutcome == pc # "error"

NoSpaceIn(s) == \A k \in 1..Len(s) : s[k] \notin {SP, NBSP}

(* C9: the normalised date, names and quantities hold no ordinary space and *)
(* no non-breaking space.                                                   *)
C9_NormalisedTextHasNoSpace ==
    /\ NoSpaceIn(date_str)
    /\ \A k \in 1..Len(records) :
         NoSpaceIn(records[k].name) /\ NoSpaceIn(records[k].qty)

\* The rows bound so far as the name row or the quantity row of a record.
BoundRows ==
    {FirstNonBlankAfter(df, r) : r \in EmittedRows}
    \cup {FirstNonBlankAfter(df, FirstNonBlankAfter(df, r)) : r \in EmittedRows}

(* C10: the visit of a row bound as the name row or the quantity row of an  *)
(* earlier record adds no record and leaves the current section unchanged.  *)
C10_BoundRowVisitHasNoEffect ==
    [][(pc = "scan" /\ i < NRows(df) /\ i \in BoundRows)
         => (records' = records /\ current_meal' = current_meal)]_vars

====
